---- MODULE Spec2Model ----
(***************************************************************************)
(* Authentication and request-authorization boundary of the admin console: *)
(* the Request Gate (src/middleware.ts) and the Token Service              *)
(* (lib/authUtils verifyToken, in the three forms the repository holds).   *)
(*                                                                         *)
(* Strings the code inspects character by character (request paths) are    *)
(* sequences of one-character strings; an Authorization header is a        *)
(* sequence of atoms, an atom being one space or one space-free chunk.     *)
(* JavaScript values of a token payload are strings; `undefined` and a     *)
(* non-string value are the tagged strings UNDEF and NUM7.                 *)
(***************************************************************************)
EXTENDS Integers, Sequences, FiniteSets, TLC

\* ---------------------------------------------------------------- bounds
\* The clock runs over 0..MaxTime (seconds since the epoch of the model).
MaxTime == 2

\* ------------------------------------------------------- string helpers
\* String.prototype.startsWith
StartsWith(s, p) == Len(s) >= Len(p) /\ SubSeq(s, 1, Len(p)) = p

\* s.endsWith(p), the `...$` anchor of the matcher's extension alternative
EndsWith(s, p) == Len(s) >= Len(p) /\ SubSeq(s, Len(s) - Len(p) + 1, Len(s)) = p

\* String.prototype.includes for a one-character needle
Includes(s, c) == \E i \in 1..Len(s) : s[i] = c

\* Array.prototype.includes over a list of paths
ListIncludes(list, s) == \E i \in 1..Len(list) : list[i] = s

\* ------------------------------------------------------ path vocabulary
P_api_products   == <<"/","a","p","i","/","p","r","o","d","u","c","t","s">>
P_api_orders     == <<"/","a","p","i","/","o","r","d","e","r","s">>
P_api_auth_login == <<"/","a","p","i","/","a","u","t","h","/","l","o","g","i","n">>
P_api_seed       == <<"/","a","p","i","/","s","e","e","d">>
P_api            == <<"/","a","p","i","/">>
P_login          == <<"/","l","o","g","i","n">>
P_dashboard      == <<"/","d","a","s","h","b","o","a","r","d">>
P_next           == <<"/","_","n","e","x","t","/">>
P_next_static    == <<"/","_","n","e","x","t","/","s","t","a","t","i","c">>
P_next_image     == <<"/","_","n","e","x","t","/","i","m","a","g","e">>
P_next_data      == <<"/","_","n","e","x","t","/","d","a","t","a">>
P_favicon        == <<"/","f","a","v","i","c","o","n">>
P_ico            == <<"i","c","o">>

\* suffixes appended to the base paths
X_none == << >>
X_id   == <<"/","1">>
X_dot  == <<"/","a",".","b">>
X_png  == <<"/","i",".","p","n","g">>

\* the asset extensions of config.matcher
AssetExtensions ==
    { <<".","s","v","g">>, <<".","p","n","g">>, <<".","j","p","g">>,
      <<".","j","p","e","g">>, <<".","g","i","f">>, <<".","w","e","b","p">> }

\* the request paths the model sends
BasePaths ==
    { P_api_products, P_api_orders, P_api_auth_login, P_api_seed,
      P_login, P_dashboard, P_next_data, P_next_static, P_favicon \o <<".">> \o P_ico }

Suffixes == { X_none, X_id, X_dot, X_png }

Paths == { b \o x : b \in BasePaths, x \in Suffixes }

\* --------------------------------------------------- middleware.ts lists
protectedApiPaths == << P_api_products, P_api_orders >>

publicPaths == << P_login, P_api_auth_login >>

\* config.matcher:
\* '/((?!_next/static|_next/image|favicon.ico|.*\.(?:svg|png|jpg|jpeg|gif|webp)$).*)'
\* (in the regular expression the '.' of favicon.ico matches any character)
matcher(pathname) ==
    /\ Len(pathname) >= 1
    /\ pathname[1] = "/"
    /\ ~ StartsWith(pathname, P_next_static)
    /\ ~ StartsWith(pathname, P_next_image)
    /\ ~ ( /\ Len(pathname) >= 12
           /\ SubSeq(pathname, 1, 8) = P_favicon
           /\ SubSeq(pathname, 10, 12) = P_ico )
    /\ ~ \E e \in AssetExtensions : EndsWith(Tail(pathname), e)

\* ------------------------------------------------------------- JS values
UNDEF == "<undefined>"
NUM7  == "<number 7>"
NoExp == -1

TypeOf(v) == IF v = UNDEF THEN "undefined" ELSE IF v = NUM7 THEN "number" ELSE "string"

\* JavaScript truthiness of a payload value
Truthy(v) == v # UNDEF /\ v # ""

\* ----------------------------------------------------------------- tokens
\* the value a deployment gives process.env.JWT_SECRET
ConfiguredSecret == "server-secret"

\* the literal the code falls back on when process.env.JWT_SECRET is not set
FallbackSecret == "fallback-secret-key-replace-in-production"

\* const JWT_SECRET = process.env.JWT_SECRET || '<fallback>'
JWT_SECRET(env) == IF env = UNDEF \/ env = "" THEN FallbackSecret ELSE env

AttackerKey == "attacker-key"

UserIds   == { "u1", UNDEF, "", NUM7 }
Usernames == { "admin", UNDEF }
Roles     == { "admin", "customer", UNDEF }
ExpValues == { NoExp } \cup 1..MaxTime

Payloads == [ userId : UserIds, username : Usernames, role : Roles, exp : ExpValues ]

NullPayload == [ userId |-> UNDEF, username |-> UNDEF, role |-> UNDEF, exp |-> NoExp ]

\* HMAC over the payload, symbolically: the key and the message it covers
Hmac(key, msg) == [ key |-> key, msg |-> msg ]

\* a compact JWS: payload and signature
Sign(payload, key) == [ payload |-> payload, sig |-> Hmac(key, payload) ]

\* tampering: the payload is altered, the signature kept
ElevateRole(t) == [ t EXCEPT !.payload.role = "admin" ]

SignedTokens == { Sign(p, k) : p \in Payloads, k \in { ConfiguredSecret, AttackerKey } }

TamperedTokens ==
    { ElevateRole(Sign(p, ConfiguredSecret)) : p \in { q \in Payloads : q.role # "admin" } }

Tokens == SignedTokens \cup TamperedTokens

NullToken == Sign(NullPayload, "")

\* --------------------------------------------------------- header values
\* one atom of a header string: a chunk of text, or a compact JWS
Txt(s) == [ c |-> s, tok |-> NullToken ]

Jws(t) == [ c |-> "jws", tok |-> t ]

SP == Txt(" ")

\* req.headers.get(name): null, or the header's string
NoHeader == [ present |-> FALSE, value |-> << >> ]

Header(v) == [ present |-> TRUE, value |-> v ]

\* String.prototype.split(' '): the segments between single spaces
RECURSIVE Split(_)
Split(s) ==
    IF ~ Includes(s, SP) THEN << s >>
    ELSE LET i == CHOOSE j \in 1..Len(s) :
                      s[j] = SP /\ \A k \in 1..(j - 1) : s[k] # SP
         IN  << SubSeq(s, 1, i - 1) >> \o Split(SubSeq(s, i + 1, Len(s)))

\* JSON.stringify of a payload: a key whose value is undefined is left out
JSONstringify(p) ==
    [ k \in { f \in { "userId", "username", "role", "exp" } :
                IF f = "exp" THEN p.exp # NoExp ELSE p[f] # UNDEF } |-> p[k] ]

NoJson == JSONstringify(NullPayload)

\* what a client may put in an X-User-Info header of its own
SpoofedInfo ==
    JSONstringify([ userId |-> "spoof", username |-> "spoof", role |-> "admin", exp |-> NoExp ])

NoInfo == [ present |-> FALSE, json |-> NoJson ]

Info(j) == [ present |-> TRUE, json |-> j ]

\* the Authorization headers the model sends
BearerHeaders == { Header(<< Txt("Bearer"), SP, Jws(t) >>) : t \in Tokens }

AdminToken == Sign([ userId |-> "u1", username |-> "admin", role |-> "admin", exp |-> NoExp ], ConfiguredSecret)

OddHeaders ==
    { Header(<< Txt("Bearer") >>),
      Header(<< Txt("Bearer"), SP >>),
      Header(<< Txt("Bearer"), SP, Txt("garbage") >>),
      Header(<< Txt("Bearer"), SP, SP, Jws(AdminToken) >>),
      Header(<< Txt("Basic"), SP, Jws(AdminToken) >>),
      Header(<< Jws(AdminToken) >>),
      Header(<< Txt("Bearer"), Jws(AdminToken) >>),
      Header(<< Txt("Bearer"), SP, Jws(AdminToken), Txt("x") >>) }

AuthHeaders == { NoHeader } \cup BearerHeaders \cup OddHeaders

Requests ==
    [ pathname : Paths,
      headers : [ Authorization : AuthHeaders, XUserInfo : { NoInfo, Info(SpoofedInfo) } ] ]

NullRequest ==
    [ pathname |-> << >>, headers |-> [ Authorization |-> NoHeader, XUserInfo |-> NoInfo ] ]

\* ---------------------------------------------------- the JWT libraries
\* a string is a compact JWS when it is exactly one well-formed token
IsCompactJws(str) == Len(str) = 1 /\ str[1].c = "jws"

Resolved(p) == [ ok |-> TRUE, payload |-> p, error |-> "" ]

Rejected(e) == [ ok |-> FALSE, payload |-> NullPayload, error |-> e ]

\* jwtVerify with the expiry test off by one: a token still passes at exp
jwtVerify_lateExpiry(str, key, clock) ==
    IF ~ IsCompactJws(str) THEN Rejected("ERR_JWS_INVALID")
    ELSE LET t == str[1].tok IN
         IF t.sig # Hmac(key, t.payload)
           THEN Rejected("ERR_JWS_SIGNATURE_VERIFICATION_FAILED")
         ELSE IF t.payload.exp # NoExp /\ t.payload.exp < clock
           THEN Rejected("ERR_JWT_EXPIRED")
         ELSE Resolved(t.payload)

\* jose jwtVerify / jsonwebtoken jwt.verify: format, then signature, then the
\* exp claim when the payload carries one; the result's error is the library's
\* error code
jwtVerify(str, key, clock) ==
    IF ~ IsCompactJws(str) THEN Rejected("ERR_JWS_INVALID")
    ELSE LET t == str[1].tok IN
         IF t.sig # Hmac(key, t.payload)
           THEN Rejected("ERR_JWS_SIGNATURE_VERIFICATION_FAILED")
         ELSE IF t.payload.exp # NoExp /\ t.payload.exp <= clock
           THEN Rejected("ERR_JWT_EXPIRED")
         ELSE Resolved(t.payload)

\* ------------------------------------------------------------ verifyToken
\* lib/authUtils.ts as src/lib/authUtils.ts has it (jsonwebtoken)
verifyToken_jsonwebtoken(env, token, clock) ==
    LET r == jwtVerify(token, JWT_SECRET(env), clock) IN
    IF ~ r.ok THEN Rejected("Invalid or expired token")
    ELSE Resolved(r.payload)

\* lib/authUtils.ts as unnamed/part_003 has it (jose, error per cause)
verifyToken_part_003(env, token, clock) ==
    LET r == jwtVerify(token, JWT_SECRET(env), clock) IN
    IF r.ok
      THEN IF \/ TypeOf(r.payload.userId) # "string"
              \/ TypeOf(r.payload.username) # "string"
              \/ TypeOf(r.payload.role) # "string"
             THEN Rejected("Invalid token")
             ELSE Resolved(r.payload)
    ELSE IF r.error = "ERR_JWT_EXPIRED" THEN Rejected("Token expired")
    ELSE IF r.error = "ERR_JWS_SIGNATURE_VERIFICATION_FAILED"
      THEN Rejected("Invalid token signature")
    ELSE IF r.error = "ERR_JWS_INVALID" THEN Rejected("Invalid token format")
    ELSE Rejected("Invalid token")

\* lib/authUtils.ts as unnamed/part_004 has it (jose, generic error)
verifyToken_part_004(env, token, clock) ==
    LET r == jwtVerify(token, JWT_SECRET(env), clock) IN
    IF ~ r.ok THEN Rejected("Invalid or expired token")
    ELSE IF ~ Truthy(r.payload.userId) \/ ~ Truthy(r.payload.username) \/ ~ Truthy(r.payload.role)
      THEN Rejected("Invalid or expired token")
    ELSE Resolved(r.payload)

\* the forms of lib/authUtils the repository holds; a build links one of them
AuthUtils == { "src/lib/authUtils.ts", "unnamed/part_003", "unnamed/part_004" }

verifyToken(lib, env, token, clock) ==
    IF lib = "src/lib/authUtils.ts" THEN verifyToken_jsonwebtoken(env, token, clock)
    ELSE IF lib = "unnamed/part_003" THEN verifyToken_part_003(env, token, clock)
    ELSE verifyToken_part_004(env, token, clock)

NoVerify == [ called |-> FALSE, result |-> Rejected("") ]

Verified(r) == [ called |-> TRUE, result |-> r ]

\* ------------------------------------------------------------- responses
\* NextResponse.next(): the request goes on to the route handler with the
\* given request headers; the gate itself sends nothing to the client
NextResponse_next(headers) ==
    [ kind |-> "next", status |-> 0, body |-> "", headers |-> headers ]

\* NextResponse.json({ message }, { status }): the gate answers the client
NextResponse_json(message, status) ==
    [ kind |-> "json", status |-> status, body |-> message,
      headers |-> NullRequest.headers ]

NoResponse == [ kind |-> "none", status |-> 0, body |-> "", headers |-> NullRequest.headers ]

\* ------------------------------------------------------------ middleware
\* const token = authHeader?.split(' ')[1]
BearerToken(authHeader) ==
    IF ~ authHeader.present THEN [ defined |-> FALSE, str |-> << >> ]
    ELSE LET parts == Split(authHeader.value) IN
         IF Len(parts) >= 2 THEN [ defined |-> TRUE, str |-> parts[2] ]
         ELSE [ defined |-> FALSE, str |-> << >> ]

\* isProtectedApi with the broader pattern: every /api/ route is protected
isProtectedApi_allApi(pathname) == StartsWith(pathname, P_api)

isProtectedApi(pathname) ==
    \E i \in 1..Len(protectedApiPaths) : StartsWith(pathname, protectedApiPaths[i])

\* the first test of middleware(): static files, framework internals, public paths
isExcluded(pathname) ==
    \/ StartsWith(pathname, P_next)
    \/ Includes(pathname, ".")
    \/ ListIncludes(publicPaths, pathname)

\* if (!token) return 401 'Authentication required'
requireAuthentication ==
    [ res |-> NextResponse_json("Authentication required", 401),
      verify |-> NoVerify, log |-> "" ]

\* the catch block answering with the message of the error it caught
catchBlock_errorMessage(decoded, error) ==
    [ res |-> NextResponse_json(error, 401),
      verify |-> Verified(decoded), log |-> error ]

\* the catch block: whatever was thrown is logged, the client gets a fixed 401
catchBlock(decoded, error) ==
    [ res |-> NextResponse_json("Invalid or expired token", 401),
      verify |-> Verified(decoded), log |-> error ]

\* proceed without the X-User-Info header set
proceed_withoutUserInfo(r, decoded) ==
    [ res |-> NextResponse_next(r.headers),
      verify |-> Verified(decoded), log |-> "" ]

\* token valid and role admin: the request goes on, X-User-Info set on it
proceed(r, decoded) ==
    [ res |-> NextResponse_next(
                [ r.headers EXCEPT !.XUserInfo = Info(JSONstringify(decoded.payload)) ]),
      verify |-> Verified(decoded), log |-> "" ]

\* return NextResponse.next() with the request untouched
passThrough(r) ==
    [ res |-> NextResponse_next(r.headers), verify |-> NoVerify, log |-> "" ]

\* the result of one run: the response, the call of verifyToken it made,
\* and what it wrote to the server console
middleware(r, lib, env, clock) ==
    IF isExcluded(r.pathname) THEN passThrough(r)
    ELSE IF isProtectedApi(r.pathname)
      THEN LET token == BearerToken(r.headers.Authorization) IN
           IF ~ token.defined \/ token.str = << >> THEN requireAuthentication
           ELSE LET decoded == verifyToken(lib, env, token.str, clock) IN
                IF ~ decoded.ok THEN catchBlock(decoded, decoded.error)
                ELSE IF decoded.payload.role # "admin"
                  THEN catchBlock(decoded, "Invalid token or insufficient permissions")
                ELSE proceed(r, decoded)
    ELSE passThrough(r)

\* ======================================================================
\* Credential Hasher (lib/cryptoUtils, held in app/api/seed/route.ts)
\* ======================================================================
\* A stored hash is a sequence of one-character strings; a buffer is a
\* sequence of bytes 0..255.

KEY_LENGTH == 64

SALT_BYTES == 16

HexDigits == << "0","1","2","3","4","5","6","7","8","9","a","b","c","d","e","f" >>

\* the value of each hexadecimal digit
HexValues ==
    [ c \in { HexDigits[i] : i \in 1..16 } |-> (CHOOSE i \in 1..16 : HexDigits[i] = c) - 1 ]

\* the value of a hexadecimal digit, -1 for any other character
HexValue(c) == IF c \in DOMAIN HexValues THEN HexValues[c] ELSE -1

\* buf.toString('hex'): two digits per byte
toString_hex(buf) ==
    [ k \in 1..(2 * Len(buf)) |->
        IF k % 2 = 1 THEN HexDigits[(buf[(k + 1) \div 2] \div 16) + 1]
        ELSE HexDigits[(buf[k \div 2] % 16) + 1] ]

\* Buffer.from(str, 'hex'): pairs of digits are decoded from the left; the
\* decoding stops at the first pair that is not two hexadecimal digits, and
\* a last character without a partner is dropped
Buffer_from_hex(str) ==
    LET pairs == Len(str) \div 2
        bad   == { j \in 1..pairs :
                     HexValue(str[2 * j - 1]) < 0 \/ HexValue(str[2 * j]) < 0 }
        n     == IF bad = { } THEN pairs
                 ELSE (CHOOSE j \in bad : \A k \in bad : j <= k) - 1
    IN  [ j \in 1..n |-> 16 * HexValue(str[2 * j - 1]) + HexValue(str[2 * j]) ]

\* String.prototype.split(sep) for a one-character separator
RECURSIVE SplitOn(_, _)
SplitOn(s, sep) ==
    IF ~ Includes(s, sep) THEN << s >>
    ELSE LET i == CHOOSE j \in 1..Len(s) :
                      s[j] = sep /\ \A k \in 1..(j - 1) : s[k] # sep
         IN  << SubSeq(s, 1, i - 1) >> \o SplitOn(SubSeq(s, i + 1, Len(s)), sep)

\* the passwords of the model; a password is not inspected but for being empty
Passwords == { "password123", "letmein", "" }

PasswordCode(password) ==
    IF password = "password123" THEN 3 ELSE IF password = "letmein" THEN 11 ELSE 0

\* the sum of the character values of a salt string
RECURSIVE SaltSum(_)
SaltSum(salt) ==
    IF salt = << >> THEN 0
    ELSE (IF HexValue(Head(salt)) >= 0 THEN HexValue(Head(salt)) + 1 ELSE 29)
           + SaltSum(Tail(salt))

\* crypto.pbkdf2(password, salt, ITERATIONS, keylen, 'sha512'): a fixed
\* function of the password and of the salt STRING giving keylen bytes
\* (what the function is does not matter to the code, only that it is one)
crypto_pbkdf2(password, salt, keylen) ==
    LET seed == 41 * PasswordCode(password) + 5 * SaltSum(salt)
    IN  [ i \in 1..keylen |-> (seed + 7 * i) % 256 ]

\* what crypto.randomBytes(SALT_BYTES) may return
RandomSalts ==
    { [ i \in 1..SALT_BYTES |-> 0 ],
      [ i \in 1..SALT_BYTES |-> 255 ],
      [ i \in 1..SALT_BYTES |-> (37 * i) % 256 ] }

Colon == << ":" >>

\* the outcome of a promise: resolved with a value, or rejected with an error
HashResolved(h) == [ settled |-> "resolved", value |-> h, error |-> "" ]

HashRejected(e) == [ settled |-> "rejected", value |-> << >>, error |-> e ]

\* pbkdf2Hash deriving the key without the salt it stores
pbkdf2Hash_unsalted(password, randomBytes, err) ==
    LET salt == toString_hex(randomBytes) IN
    IF err # "" THEN HashRejected(err)
    ELSE HashResolved(salt \o Colon
                        \o toString_hex(crypto_pbkdf2(password, << >>, KEY_LENGTH)))

\* pbkdf2Hash(password); randomBytes is what crypto.randomBytes returned and
\* err the error crypto.pbkdf2 calls back with ("" for none)
pbkdf2Hash(password, randomBytes, err) ==
    LET salt == toString_hex(randomBytes) IN
    IF err # "" THEN HashRejected(err)
    ELSE HashResolved(salt \o Colon
                        \o toString_hex(crypto_pbkdf2(password, salt, KEY_LENGTH)))

VerifyResolved(b) == [ settled |-> "resolved", value |-> b, error |-> "" ]

VerifyRejected(e) == [ settled |-> "rejected", value |-> FALSE, error |-> e ]

\* crypto.timingSafeEqual(a, b): throws when the lengths differ
timingSafeEqual(a, b) ==
    IF Len(a) # Len(b) THEN [ threw |-> TRUE, equal |-> FALSE ]
    ELSE [ threw |-> FALSE, equal |-> (a = b) ]

\* pbkdf2Verify(storedHash, providedPassword); err is the error crypto.pbkdf2
\* calls back with ("" for none)
pbkdf2Verify(storedHash, providedPassword, err) ==
    LET parts == SplitOn(storedHash, ":")
        salt  == parts[1]
    IN
    IF salt = << >> \/ Len(parts) < 2 THEN VerifyResolved(FALSE)
    ELSE IF parts[2] = << >> THEN VerifyResolved(FALSE)
    ELSE IF err # "" THEN VerifyRejected(err)
    ELSE LET derivedKeyHex == toString_hex(crypto_pbkdf2(providedPassword, salt, KEY_LENGTH))
             cmp == timingSafeEqual(Buffer_from_hex(derivedKeyHex), Buffer_from_hex(parts[2]))
         IN  IF cmp.threw THEN VerifyResolved(FALSE) ELSE VerifyResolved(cmp.equal)

\* the ways stored data may be malformed
Malformations ==
    { "noColon", "emptySalt", "emptyKey", "empty", "nonHexKey", "nonHexTail",
      "nonHexSalt", "shortKey", "longKey" }

\* a stored hash h = salt:key malformed in the given way
Malform(h, kind) ==
    LET parts == SplitOn(h, ":")
        salt  == parts[1]
        key   == parts[2]
    IN  CASE kind = "noColon"    -> salt \o key
          [] kind = "emptySalt"  -> Colon \o key
          [] kind = "emptyKey"   -> salt \o Colon
          [] kind = "empty"      -> << >>
          [] kind = "nonHexKey"  -> salt \o Colon \o << "z", "z" >> \o SubSeq(key, 3, Len(key))
          [] kind = "nonHexTail" -> salt \o Colon \o key \o << "z", "z" >>
          [] kind = "nonHexSalt" -> << "z", "z" >> \o SubSeq(salt, 3, Len(salt)) \o Colon \o key
          [] kind = "shortKey"   -> salt \o Colon \o SubSeq(key, 1, Len(key) - 2)
          [] kind = "longKey"    -> salt \o Colon \o key \o << "0", "0" >>
          [] OTHER               -> h

\* ======================================================================
\* Login endpoint (app/api/auth/login/route.ts, held in unnamed/part_006)
\* ======================================================================

\* const JWT_EXPIRATION = '1h', in seconds
JWT_EXPIRATION == 3600

\* new SignJWT(payload).setProtectedHeader(HS256).setIssuedAt()
\*    .setExpirationTime(ttl).sign(key), at time iat
SignJWT_noExpiry(payload, iat, ttl, key) ==
    Sign([ userId |-> payload.userId, username |-> payload.username,
           role |-> payload.role, exp |-> NoExp ], key)

SignJWT(payload, iat, ttl, key) ==
    Sign([ userId |-> payload.userId, username |-> payload.username,
           role |-> payload.role, exp |-> iat + ttl ], key)

\* a document of the users collection
NoHash == [ present |-> FALSE, value |-> << >> ]

StoredHash(h) == [ present |-> TRUE, value |-> h ]

UserDoc(id, username, passwordHash, role) ==
    [ id |-> id, username |-> username, passwordHash |-> passwordHash, role |-> role ]

NullDoc == UserDoc("", "", NoHash, "")

\* the hash the seed stores for a password
SeededHash(password) ==
    pbkdf2Hash(password, [ i \in 1..SALT_BYTES |-> (37 * i) % 256 ], "").value

D_admin == UserDoc("u1", "admin", StoredHash(SeededHash("password123")), "admin")

D_bob == UserDoc("u2", "bob", StoredHash(SeededHash("letmein")), "customer")

\* a second document with the username 'admin'
D_admin2 == UserDoc("u3", "admin", StoredHash(SeededHash("letmein")), "customer")

\* an admin whose stored hash is malformed, missing, or well-formed
D_carol(kind) ==
    UserDoc("u4", "carol",
            IF kind = "missing" THEN NoHash
            ELSE StoredHash(Malform(SeededHash("letmein"), kind)),
            "admin")

\* the contents of the users collection the model starts from
UserStores ==
    { << >>, << D_admin, D_bob >>, << D_admin, D_admin2 >>, << D_admin2, D_admin >> }
      \cup { << D_admin, D_carol(k) >> : k \in Malformations \cup { "missing" } }

\* the login requests of the model
LoginBodies == [ username : { "admin", "bob", "carol", "nobody", "" }, password : Passwords ]

NullBody == [ username |-> "", password |-> "" ]

\* the internal failures the environment may inject, and the exception's message
Faults == { "none", "json", "getDocs", "pbkdf2", "sign" }

FaultMessage(fault) ==
    CASE fault = "json"    -> "Unexpected end of JSON input"
      [] fault = "getDocs" -> "Failed to get documents: client is offline"
      [] fault = "pbkdf2"  -> "error:0308010C:digital envelope routines::unsupported"
      [] fault = "sign"    -> "Key for the HS256 algorithm must be of type CryptoKey"
      [] OTHER             -> ""

NoToken == [ present |-> FALSE, jws |-> NullToken ]

\* NextResponse.json({ message }, { status }) of the login route
LoginJson(message, status) ==
    [ status |-> status, message |-> message, error |-> "", token |-> NoToken ]

\* the catch block of POST: the exception's message goes into the body
LoginCaught(e) ==
    [ status |-> 500, message |-> "Internal server error during login",
      error |-> e, token |-> NoToken ]

NoLoginResponse == LoginJson("", 0)

\* the answer when no document has the username
UserNotFound == LoginJson("Invalid username or password", 401)

\* the wrong-password answer with a wording of its own
InvalidPassword_ownWording == LoginJson("Invalid password", 401)

\* the answer when pbkdf2Verify resolved false
InvalidPassword == LoginJson("Invalid username or password", 401)

\* the not-an-admin answer given as invalid credentials
AccessDenied_asInvalid == LoginJson("Invalid username or password", 401)

\* the answer when the user's role is not 'admin'
AccessDenied == LoginJson("Access denied. Admin privileges required.", 403)

\* POST without the password check
POST_noPasswordCheck(body, store, env, clock, fault) ==
    LET Match(d) == d.username = body.username
        docs == SelectSeq(store, Match)
    IN  IF docs = << >> THEN LoginJson("Invalid username or password", 401)
        ELSE [ status |-> 200, message |-> "", error |-> "",
               token |-> [ present |-> TRUE,
                           jws |-> SignJWT([ userId |-> docs[1].id,
                                             username |-> docs[1].username,
                                             role |-> docs[1].role ],
                                           clock, JWT_EXPIRATION, JWT_SECRET(env)) ] ]

\* POST(req): the response to a login request
POST(body, store, env, clock, fault) ==
    IF fault = "json" THEN LoginCaught(FaultMessage(fault))
    ELSE IF ~ Truthy(body.username) \/ ~ Truthy(body.password)
      THEN LoginJson("Username and password are required", 400)
    ELSE IF fault = "getDocs" THEN LoginCaught(FaultMessage(fault))
    ELSE LET Match(d) == d.username = body.username
             docs == SelectSeq(store, Match)
         IN
         IF docs = << >> THEN UserNotFound
         ELSE LET userDoc == docs[1]
                  storedHash == userDoc.passwordHash
              IN
              IF ~ storedHash.present \/ storedHash.value = << >>
                THEN LoginJson("Authentication configuration error", 500)
              ELSE LET isValidPassword ==
                           pbkdf2Verify(storedHash.value, body.password,
                                        IF fault = "pbkdf2" THEN FaultMessage(fault) ELSE "")
                   IN
                   IF isValidPassword.settled = "rejected"
                     THEN LoginCaught(isValidPassword.error)
                   ELSE IF ~ isValidPassword.value
                     THEN InvalidPassword
                   ELSE IF userDoc.role # "admin"
                     THEN AccessDenied
                   ELSE IF fault = "sign" THEN LoginCaught(FaultMessage(fault))
                   ELSE [ status |-> 200, message |-> "", error |-> "",
                          token |-> [ present |-> TRUE,
                                      jws |-> SignJWT([ userId |-> userDoc.id,
                                                        username |-> userDoc.username,
                                                        role |-> userDoc.role ],
                                                      clock, JWT_EXPIRATION,
                                                      JWT_SECRET(env)) ] ]

\* the last token the login endpoint issued, with the time and the user
\* document it was issued for
NotIssued == [ present |-> FALSE, jws |-> NullToken, issuedAt |-> 0, doc |-> NullDoc ]

\* the state of one use of the hasher
HasherIdle ==
    [ pc |-> "idle", password |-> "", stored |-> << >>, malformation |-> "none",
      candidate |-> "", cryptoError |-> "", result |-> VerifyResolved(FALSE) ]

\* the errors crypto.pbkdf2 may call back with ("" for none)
CryptoErrors == { "", "error:0308010C:digital envelope routines::unsupported" }

\* ---------------------------------------------------- Session Controller
\* the value localStorage.getItem gives for a missing item, and the initial
\* value of the token state
Null == "<null>"

\* JavaScript truthiness of a string | null
ToBoolean(v) == v # Null /\ v # ""

P_products == <<"/","p","r","o","d","u","c","t","s">>

\* the routes of the console: the login page and two pages under AdminLayout
Routes == { P_login, P_dashboard, P_products }

NoRoute == << >>

\* token strings a client may hold
SessionTokens == { "abc", "xyz" }

\* what the 'adminToken' item may hold when the page loads: setToken stores
\* non-empty tokens only
StoredValues == { Null } \cup SessionTokens

\* what setToken may be called with
NewTokens == { Null, "" } \cup SessionTokens

\* what one callback works on: the 'adminToken' item, the latest values
\* given to the state setters, and what the callback did (writes to
\* localStorage, calls of router.push)
World(item, tok, loading) ==
    [ localStorage |-> item, token |-> tok, isLoading |-> loading,
      writes |-> 0, pushed |-> << >> ]

\* the values of token and isLoading a callback reads
Closure(tok, loading) == [ token |-> tok, isLoading |-> loading ]

\* router.push(href), with who called it and the values the caller had read
router_push(w, href, by, c) ==
    [ w EXCEPT !.pushed = Append(@, [ to |-> href, by |-> by,
                                       token |-> c.token,
                                       isLoading |-> c.isLoading ]) ]

localStorage_setItem(w, v) == [ w EXCEPT !.localStorage = v, !.writes = @ + 1 ]

\* removeItem changes the storage only when the item is there
localStorage_removeItem(w) ==
    [ w EXCEPT !.localStorage = Null,
               !.writes = IF w.localStorage = Null THEN @ ELSE @ + 1 ]

setTokenState(w, v) == [ w EXCEPT !.token = v ]

setIsLoading(w, b) == [ w EXCEPT !.isLoading = b ]

\* the first effect of AuthProvider (dependencies []): read the stored token
useEffect_storedToken(w) ==
    LET storedToken == w.localStorage
        w1 == IF ToBoolean(storedToken) THEN setTokenState(w, storedToken)
              ELSE setTokenState(w, Null)
    IN  setIsLoading(w1, FALSE)

\* const publicPaths = ['/login'] of the second effect
AuthProvider_publicPaths == << P_login >>

\* the second effect redirecting whether or not the stored token was read
useEffect_redirect_whileLoading(w, c, path) ==
    IF ~ ToBoolean(c.token) /\ ~ ListIncludes(AuthProvider_publicPaths, path)
      THEN router_push(w, P_login, "useEffect", c)
    ELSE IF ToBoolean(c.token) /\ path = P_login
      THEN router_push(w, P_dashboard, "useEffect", c)
    ELSE w

\* the second effect of AuthProvider (dependencies token, isLoading,
\* pathname): c holds the token and isLoading of the render it belongs to
useEffect_redirect(w, c, path) ==
    IF ~ c.isLoading
      THEN IF ~ ToBoolean(c.token) /\ ~ ListIncludes(AuthProvider_publicPaths, path)
             THEN router_push(w, P_login, "useEffect", c)
           ELSE IF ToBoolean(c.token) /\ path = P_login
             THEN router_push(w, P_dashboard, "useEffect", c)
           ELSE w
    ELSE w

\* setToken without its closing setIsLoading(false)
setToken_staysLoading(w, newToken, path) ==
    LET w1 == setIsLoading(w, TRUE)
        w2 == IF ToBoolean(newToken) THEN localStorage_setItem(w1, newToken)
              ELSE localStorage_removeItem(w1)
        w3 == setTokenState(w2, newToken)
        c  == Closure(newToken, w3.isLoading)
    IN  IF ~ ToBoolean(newToken) /\ path # P_login
          THEN router_push(w3, P_login, "setToken", c)
        ELSE IF ToBoolean(newToken) /\ path = P_login
          THEN router_push(w3, P_dashboard, "setToken", c)
        ELSE w3

\* setToken(newToken); path is the pathname of the render the function
\* belongs to. The state setters are batched: the render that follows sees
\* the last value given to each.
setToken(w, newToken, path) ==
    LET w1 == setIsLoading(w, TRUE)
        w2 == IF ToBoolean(newToken) THEN localStorage_setItem(w1, newToken)
              ELSE localStorage_removeItem(w1)
        w3 == setTokenState(w2, newToken)
        w4 == setIsLoading(w3, FALSE)
        c  == Closure(newToken, w4.isLoading)
    IN  IF ~ ToBoolean(newToken) /\ path # P_login
          THEN router_push(w4, P_login, "setToken", c)
        ELSE IF ToBoolean(newToken) /\ path = P_login
          THEN router_push(w4, P_dashboard, "setToken", c)
        ELSE w4

\* logout()
logout(w, path) ==
    LET w1 == setToken(w, Null, path)
    IN  router_push(w1, P_login, "logout", Closure(w1.token, w1.isLoading))

\* the effect of AdminLayout without its test of isAuthenticated
AdminLayout_useEffect_noAuthTest(w, c) ==
    IF ~ c.isLoading
      THEN router_push(w, P_login, "AdminLayout", c)
    ELSE w

\* the effect of AdminLayout (dependencies isAuthenticated, isLoading)
AdminLayout_useEffect(w, c) ==
    IF ~ c.isLoading /\ ~ ToBoolean(c.token)
      THEN router_push(w, P_login, "AdminLayout", c)
    ELSE w

\* AdminLayout without its test of isAuthenticated
AdminLayout_noAuthTest(c) ==
    IF c.isLoading THEN "spinner" ELSE "children"

\* what AdminLayout returns: the spinner, null, or the sidebar and children
AdminLayout(c) ==
    IF c.isLoading THEN "spinner"
    ELSE IF ~ ToBoolean(c.token) THEN "null"
    ELSE "children"

\* the committed render: the values of token and isLoading it was made
\* with, whether the route is under AdminLayout, and what AdminLayout shows
NotRendered ==
    [ mounted |-> FALSE, token |-> Null, isLoading |-> TRUE, layout |-> FALSE,
      screen |-> "none" ]

Rendered(tok, loading, path) ==
    [ mounted |-> TRUE, token |-> tok, isLoading |-> loading,
      layout |-> path # P_login,
      screen |-> IF path # P_login THEN AdminLayout(Closure(tok, loading))
                 ELSE "page" ]

\* the effects scheduled as if pathname were no dependency of the second
\* effect of AuthProvider
EffectsOf_noPathname(old, oldPath, new, newPath) ==
    IF ~ old.mounted
      THEN { "storedToken", "redirect" }
             \cup (IF new.layout THEN { "AdminLayout" } ELSE { })
    ELSE (IF old.token # new.token \/ old.isLoading # new.isLoading
            THEN { "redirect" } ELSE { })
         \cup
         (IF new.layout /\ ( \/ ~ old.layout
                             \/ ToBoolean(old.token) # ToBoolean(new.token)
                             \/ old.isLoading # new.isLoading )
            THEN { "AdminLayout" } ELSE { })

\* the effects React schedules after a render: all of them when the
\* component mounts, afterwards those with a changed dependency
EffectsOf(old, oldPath, new, newPath) ==
    IF ~ old.mounted
      THEN { "storedToken", "redirect" }
             \cup (IF new.layout THEN { "AdminLayout" } ELSE { })
    ELSE (IF old.token # new.token \/ old.isLoading # new.isLoading
               \/ oldPath # newPath
            THEN { "redirect" } ELSE { })
         \cup
         (IF new.layout /\ ( \/ ~ old.layout
                             \/ ToBoolean(old.token) # ToBoolean(new.token)
                             \/ old.isLoading # new.isLoading )
            THEN { "AdminLayout" } ELSE { })

\* the pending effects run: those of the child (AdminLayout) first, then
\* those of AuthProvider in the order of the source
RunEffects(w, pending, c, path) ==
    LET w1 == IF "AdminLayout" \in pending THEN AdminLayout_useEffect(w, c) ELSE w
        w2 == IF "storedToken" \in pending THEN useEffect_storedToken(w1) ELSE w1
    IN  IF "redirect" \in pending THEN useEffect_redirect(w2, c, path) ELSE w2

\* the router: the href of the last router.push not yet navigated to, and
\* the calls of router.push since the page loaded or the user last acted
RouterIdle == [ pending |-> NoRoute, pushes |-> 0 ]

\* what the last step of the console did
NoOp ==
    [ op |-> "none", arg |-> Null, before |-> Null, writes |-> 0,
      pushed |-> << >>, ran |-> { }, read |-> Closure(Null, TRUE) ]

\* most calls of router.push the console is followed through between two
\* acts of the user
MaxRedirects == 6

\* a correctly signed admin token that expires at MaxTime
HeldToken ==
    Sign([ userId |-> "u1", username |-> "admin", role |-> "admin", exp |-> MaxTime ],
         ConfiguredSecret)

\* ------------------------------------------------------------ seed route
\* const SEED_SECRET, and what a caller may send as Bearer secret
SEED_SECRET == "development-only-secret"

ProvidedSecrets == { SEED_SECRET, "guess", UNDEF }

NodeEnvs == { "development", "production" }

\* the seed requests that may be in flight together
MaxSeedRequests == 2

SeedRequests == 1..MaxSeedRequests

SeedIdle == [ pc |-> "idle", status |-> 0 ]

\* the security check of the seed route
seedForbidden(nodeEnv, providedSecret) ==
    nodeEnv # "development" /\ providedSecret # SEED_SECRET

\* the document addDoc stores for seed request i (Firestore picks the id)
SeedDoc(i, passwordHash) ==
    UserDoc(IF i = 1 THEN "seed1" ELSE IF i = 2 THEN "seed2" ELSE "seed3",
            "admin", StoredHash(passwordHash), "admin")

\* ------------------------------------------------------------------ state
VARIABLES
    authUtils,  \* the form of lib/authUtils this build links
    processEnv, \* process.env.JWT_SECRET: a secret, or UNDEF when not set
    now,        \* the server clock
    pc,         \* "idle", "received" (a request is in flight), "responded",
                \* "login-received", "login-responded"
    req,        \* the request in flight
    gateRan,    \* whether the framework ran middleware() for it
    res,        \* the gate's response to it
    verify,     \* the call of verifyToken made for it, and its result
    log,        \* what the gate wrote to the server console for it
    users,      \* the users collection, in the order a query returns it
    lreq,       \* the login request in flight: its body and the injected fault
    lres,       \* the login endpoint's response to it
    issued,     \* the last token the login endpoint issued
    hasher,     \* one use of the Credential Hasher
    localStorage, \* the browser's 'adminToken' item (Null when missing)
    token,      \* the latest value given to setTokenState
    isLoading,  \* the latest value given to setIsLoading
    pathname,   \* the route the browser shows
    view,       \* the committed render of AuthProvider and AdminLayout
    effects,    \* the effects scheduled by that render and not yet run
    router,     \* the router: pending navigation, calls of router.push
    last,       \* what the last step of the console did
    nodeEnv,    \* process.env.NODE_ENV
    seed        \* the seed requests in flight

gateVars == << req, gateRan, res, verify, log >>

loginVars == << users, lreq, lres, issued >>

sessionVars == << localStorage, token, isLoading, pathname, view, effects, router, last >>

seedVars == << nodeEnv, seed >>

vars == << authUtils, processEnv, now, pc, req, gateRan, res, verify, log,
           users, lreq, lres, issued, hasher,
           localStorage, token, isLoading, pathname, view, effects, router, last,
           nodeEnv, seed >>

NoLoginRequest == [ body |-> NullBody, fault |-> "none" ]

\* the console before React has rendered it
SessionInit ==
    /\ token = Null
    /\ isLoading = TRUE
    /\ view = NotRendered
    /\ effects = { }
    /\ router = RouterIdle
    /\ last = NoOp

\* no browser and no seed request
NoClient ==
    /\ localStorage = Null
    /\ pathname = P_login
    /\ SessionInit
    /\ nodeEnv = "production"
    /\ seed = [ i \in SeedRequests |-> SeedIdle ]

\* everything but the build, the environment and the users collection
InitRest ==
    /\ now = 0
    /\ pc = "idle"
    /\ req = NullRequest
    /\ gateRan = FALSE
    /\ res = NoResponse
    /\ verify = NoVerify
    /\ log = ""
    /\ lreq = NoLoginRequest
    /\ lres = NoLoginResponse
    /\ issued = NotIssued
    /\ hasher = HasherIdle

\* a deployment with its secret configured and the seeded users
Init ==
    /\ authUtils \in AuthUtils
    /\ processEnv = ConfiguredSecret
    /\ users = << D_admin, D_bob >>
    /\ InitRest
    /\ NoClient

\* a client sends a request
Receive ==
    /\ pc = "idle"
    /\ \E r \in Requests : req' = r
    /\ pc' = "received"
    /\ UNCHANGED << authUtils, processEnv, now, gateRan, res, verify, log, hasher >>
    /\ UNCHANGED loginVars
    /\ UNCHANGED sessionVars
    /\ UNCHANGED seedVars

\* the gate answering that a token is not valid once the browser has
\* logged out
Middleware_afterLogout ==
    /\ pc = "received"
    /\ matcher(req.pathname)
    /\ LET out == IF last.op = "logout" THEN catchBlock(Rejected("logged out"), "logged out")
                  ELSE middleware(req, authUtils, processEnv, now) IN
         /\ res' = out.res
         /\ verify' = out.verify
         /\ log' = out.log
    /\ gateRan' = TRUE
    /\ pc' = "responded"
    /\ UNCHANGED << authUtils, processEnv, now, req, hasher >>
    /\ UNCHANGED loginVars
    /\ UNCHANGED sessionVars
    /\ UNCHANGED seedVars

\* the path matches config.matcher: the framework runs middleware()
Middleware ==
    /\ pc = "received"
    /\ matcher(req.pathname)
    /\ LET out == middleware(req, authUtils, processEnv, now) IN
         /\ res' = out.res
         /\ verify' = out.verify
         /\ log' = out.log
    /\ gateRan' = TRUE
    /\ pc' = "responded"
    /\ UNCHANGED << authUtils, processEnv, now, req, hasher >>
    /\ UNCHANGED loginVars
    /\ UNCHANGED sessionVars
    /\ UNCHANGED seedVars

\* the path does not match config.matcher: the request goes to its route
\* handler without middleware() having run
Unmatched ==
    /\ pc = "received"
    /\ ~ matcher(req.pathname)
    /\ res' = NextResponse_next(req.headers)
    /\ verify' = NoVerify
    /\ log' = ""
    /\ gateRan' = FALSE
    /\ pc' = "responded"
    /\ UNCHANGED << authUtils, processEnv, now, req, hasher >>
    /\ UNCHANGED loginVars
    /\ UNCHANGED sessionVars
    /\ UNCHANGED seedVars

\* the request is over
Done ==
    /\ pc = "responded"
    /\ pc' = "idle"
    /\ req' = NullRequest
    /\ gateRan' = FALSE
    /\ res' = NoResponse
    /\ verify' = NoVerify
    /\ log' = ""
    /\ UNCHANGED << authUtils, processEnv, now, hasher >>
    /\ UNCHANGED loginVars
    /\ UNCHANGED sessionVars
    /\ UNCHANGED seedVars

\* a second passes
Tick ==
    /\ pc = "idle"
    /\ now % JWT_EXPIRATION < MaxTime
    /\ now' = now + 1
    /\ UNCHANGED << authUtils, processEnv, pc, hasher >>
    /\ UNCHANGED gateVars
    /\ UNCHANGED loginVars
    /\ UNCHANGED sessionVars
    /\ UNCHANGED seedVars

Next == Receive \/ Middleware \/ Unmatched \/ Done \/ Tick

Spec == Init /\ [][Next]_vars

\* ------------------------------------------------------ login behaviours
\* a deployment with or without its secret, and any of the users collections
InitLogin ==
    /\ authUtils \in AuthUtils
    /\ processEnv \in { ConfiguredSecret, UNDEF }
    /\ users \in UserStores
    /\ InitRest
    /\ NoClient

\* a client posts credentials to /api/auth/login
LoginReceive ==
    /\ pc = "idle"
    /\ \E b \in LoginBodies, f \in Faults : lreq' = [ body |-> b, fault |-> f ]
    /\ pc' = "login-received"
    /\ UNCHANGED << authUtils, processEnv, now, users, lres, issued, hasher >>
    /\ UNCHANGED gateVars
    /\ UNCHANGED sessionVars
    /\ UNCHANGED seedVars

\* the route handler answers
LoginPOST ==
    /\ pc = "login-received"
    /\ lres' = POST(lreq.body, users, processEnv, now, lreq.fault)
    /\ issued' = IF lres'.token.present
                   THEN [ present |-> TRUE, jws |-> lres'.token.jws, issuedAt |-> now,
                          doc |-> LET Match(d) == d.username = lreq.body.username
                                  IN  SelectSeq(users, Match)[1] ]
                   ELSE issued
    /\ pc' = "login-responded"
    /\ UNCHANGED << authUtils, processEnv, now, users, lreq, hasher >>
    /\ UNCHANGED gateVars
    /\ UNCHANGED sessionVars
    /\ UNCHANGED seedVars

\* the login request is over
LoginDone ==
    /\ pc = "login-responded"
    /\ pc' = "idle"
    /\ lreq' = NoLoginRequest
    /\ lres' = NoLoginResponse
    /\ UNCHANGED << authUtils, processEnv, now, users, issued, hasher >>
    /\ UNCHANGED gateVars
    /\ UNCHANGED sessionVars
    /\ UNCHANGED seedVars

\* the client calls a protected API with the token the login gave it
ReceiveIssued ==
    /\ pc = "idle"
    /\ issued.present
    /\ \E path \in { P_api_orders, P_api_products \o X_id } :
          req' = [ pathname |-> path,
                   headers |-> [ Authorization |->
                                     Header(<< Txt("Bearer"), SP, Jws(issued.jws) >>),
                                 XUserInfo |-> NoInfo ] ]
    /\ pc' = "received"
    /\ UNCHANGED << authUtils, processEnv, now, gateRan, res, verify, log, hasher >>
    /\ UNCHANGED loginVars
    /\ UNCHANGED sessionVars
    /\ UNCHANGED seedVars

\* the token's lifetime passes
Expire ==
    /\ pc = "idle"
    /\ now <= MaxTime
    /\ now' = now + JWT_EXPIRATION
    /\ UNCHANGED << authUtils, processEnv, pc, hasher >>
    /\ UNCHANGED gateVars
    /\ UNCHANGED loginVars
    /\ UNCHANGED sessionVars
    /\ UNCHANGED seedVars

NextLogin ==
    LoginReceive \/ LoginPOST \/ LoginDone \/ ReceiveIssued \/ Middleware \/ Done
      \/ Tick \/ Expire

SpecLogin == InitLogin /\ [][NextLogin]_vars

\* ----------------------------------------------------- hasher behaviours
\* pbkdf2Hash(password) is called, as the seed route does
HashPassword ==
    /\ hasher.pc = "idle"
    /\ \E p \in Passwords, salt \in RandomSalts, err \in CryptoErrors :
          LET h == pbkdf2Hash(p, salt, err) IN
          hasher' = [ hasher EXCEPT
                        !.pc = IF h.settled = "resolved" THEN "hashed" ELSE "failed",
                        !.password = p,
                        !.cryptoError = err,
                        !.stored = h.value ]
    /\ UNCHANGED << authUtils, processEnv, now, pc >>
    /\ UNCHANGED gateVars
    /\ UNCHANGED loginVars
    /\ UNCHANGED sessionVars
    /\ UNCHANGED seedVars

\* the stored value is damaged in the store
Corrupt ==
    /\ hasher.pc = "hashed"
    /\ hasher.malformation = "none"
    /\ \E kind \in Malformations :
          hasher' = [ hasher EXCEPT !.malformation = kind,
                                    !.stored = Malform(hasher.stored, kind) ]
    /\ UNCHANGED << authUtils, processEnv, now, pc >>
    /\ UNCHANGED gateVars
    /\ UNCHANGED loginVars
    /\ UNCHANGED sessionVars
    /\ UNCHANGED seedVars

\* pbkdf2Verify(storedHash, providedPassword) is called, as the login route does
VerifyPassword ==
    /\ hasher.pc = "hashed"
    /\ \E candidate \in Passwords, err \in CryptoErrors :
          hasher' = [ hasher EXCEPT
                        !.pc = "verified",
                        !.candidate = candidate,
                        !.cryptoError = err,
                        !.result = pbkdf2Verify(hasher.stored, candidate, err) ]
    /\ UNCHANGED << authUtils, processEnv, now, pc >>
    /\ UNCHANGED gateVars
    /\ UNCHANGED loginVars
    /\ UNCHANGED sessionVars
    /\ UNCHANGED seedVars

\* the use of the hasher is over
HasherDone ==
    /\ hasher.pc \in { "verified", "failed" }
    /\ hasher' = HasherIdle
    /\ UNCHANGED << authUtils, processEnv, now, pc >>
    /\ UNCHANGED gateVars
    /\ UNCHANGED loginVars
    /\ UNCHANGED sessionVars
    /\ UNCHANGED seedVars

NextHasher == HashPassword \/ Corrupt \/ VerifyPassword \/ HasherDone

SpecHasher == Init /\ [][NextHasher]_vars

\* ---------------------------------------------------- console behaviours
\* a browser opens the console on some route, with or without a stored item
InitSession ==
    /\ authUtils \in AuthUtils
    /\ processEnv = ConfiguredSecret
    /\ users = << D_admin, D_bob >>
    /\ InitRest
    /\ localStorage \in StoredValues
    /\ pathname \in Routes
    /\ SessionInit
    /\ nodeEnv = "production"
    /\ seed = [ i \in SeedRequests |-> SeedIdle ]

serverVars == << authUtils, processEnv, now, pc, hasher >>

\* a callback has run: its writes and its calls of router.push take effect
Ran(w, op, arg, ran, c) ==
    /\ localStorage' = w.localStorage
    /\ token' = w.token
    /\ isLoading' = w.isLoading
    /\ last' = [ op |-> op, arg |-> arg, before |-> token, writes |-> w.writes,
                 pushed |-> w.pushed, ran |-> ran, read |-> c ]

\* React renders the tree for the first time
Mount ==
    /\ ~ view.mounted
    /\ view' = Rendered(token, isLoading, pathname)
    /\ effects' = EffectsOf(view, pathname, view', pathname)
    /\ last' = [ NoOp EXCEPT !.op = "mount" ]
    /\ UNCHANGED << localStorage, token, isLoading, pathname, router >>
    /\ UNCHANGED serverVars
    /\ UNCHANGED gateVars
    /\ UNCHANGED loginVars
    /\ UNCHANGED seedVars

\* React runs the effects of the committed render
FlushEffects ==
    /\ effects # { }
    /\ LET c == Closure(view.token, view.isLoading)
           w == RunEffects(World(localStorage, token, isLoading), effects, c, pathname)
       IN  /\ router.pushes + Len(w.pushed) <= MaxRedirects
           /\ Ran(w, "effects", Null, effects, c)
           /\ router' = [ pending |-> IF w.pushed = << >> THEN router.pending
                                      ELSE w.pushed[Len(w.pushed)].to,
                          pushes |-> router.pushes + Len(w.pushed) ]
    /\ effects' = { }
    /\ UNCHANGED << pathname, view >>
    /\ UNCHANGED serverVars
    /\ UNCHANGED gateVars
    /\ UNCHANGED loginVars
    /\ UNCHANGED seedVars

\* React renders again after a state setter gave a new value
Render ==
    /\ view.mounted
    /\ effects = { }
    /\ token # view.token \/ isLoading # view.isLoading
    /\ view' = Rendered(token, isLoading, pathname)
    /\ effects' = EffectsOf(view, pathname, view', pathname)
    /\ last' = [ NoOp EXCEPT !.op = "render" ]
    /\ UNCHANGED << localStorage, token, isLoading, pathname, router >>
    /\ UNCHANGED serverVars
    /\ UNCHANGED gateVars
    /\ UNCHANGED loginVars
    /\ UNCHANGED seedVars

\* the router navigates to the href of the last router.push, and React
\* renders the new route
Navigate ==
    /\ view.mounted
    /\ effects = { }
    /\ router.pending # NoRoute
    /\ pathname' = router.pending
    /\ view' = Rendered(token, isLoading, pathname')
    /\ effects' = EffectsOf(view, pathname, view', pathname')
    /\ router' = [ router EXCEPT !.pending = NoRoute ]
    /\ last' = [ NoOp EXCEPT !.op = "navigate" ]
    /\ UNCHANGED << localStorage, token, isLoading >>
    /\ UNCHANGED serverVars
    /\ UNCHANGED gateVars
    /\ UNCHANGED loginVars
    /\ UNCHANGED seedVars

\* the user goes to another route (a link, the back button)
RouteChange ==
    /\ view.mounted
    /\ ~ view.isLoading
    /\ effects = { }
    /\ \E p \in Routes \ { pathname } : pathname' = p
    /\ view' = Rendered(token, isLoading, pathname')
    /\ effects' = EffectsOf(view, pathname, view', pathname')
    /\ router' = [ router EXCEPT !.pushes = 0 ]
    /\ last' = [ NoOp EXCEPT !.op = "route" ]
    /\ UNCHANGED << localStorage, token, isLoading >>
    /\ UNCHANGED serverVars
    /\ UNCHANGED gateVars
    /\ UNCHANGED loginVars
    /\ UNCHANGED seedVars

\* a page on screen (the login page, or a page inside AdminLayout) calls
\* setToken(newToken) of the context it was rendered with
SetToken ==
    /\ view.mounted
    /\ ~ view.isLoading
    /\ view.screen \in { "page", "children" }
    /\ \E newToken \in NewTokens :
          LET w == setToken(World(localStorage, token, isLoading), newToken, pathname)
          IN  /\ Ran(w, "setToken", newToken, { }, Closure(newToken, w.isLoading))
              /\ router' = [ pending |-> IF w.pushed = << >> THEN router.pending
                                         ELSE w.pushed[Len(w.pushed)].to,
                             pushes |-> Len(w.pushed) ]
    /\ UNCHANGED << pathname, view, effects >>
    /\ UNCHANGED serverVars
    /\ UNCHANGED gateVars
    /\ UNCHANGED loginVars
    /\ UNCHANGED seedVars

\* the user presses the Logout button AdminLayout shows
Logout ==
    /\ view.mounted
    /\ view.screen = "children"
    /\ LET w == logout(World(localStorage, token, isLoading), pathname)
       IN  /\ Ran(w, "logout", Null, { }, Closure(Null, w.isLoading))
           /\ router' = [ pending |-> w.pushed[Len(w.pushed)].to,
                          pushes |-> Len(w.pushed) ]
    /\ UNCHANGED << pathname, view, effects >>
    /\ UNCHANGED serverVars
    /\ UNCHANGED gateVars
    /\ UNCHANGED loginVars
    /\ UNCHANGED seedVars

\* a client that holds HeldToken calls a protected API with it
ReceiveHeld ==
    /\ pc = "idle"
    /\ \E path \in { P_api_orders, P_api_products \o X_id } :
          req' = [ pathname |-> path,
                   headers |-> [ Authorization |->
                                     Header(<< Txt("Bearer"), SP, Jws(HeldToken) >>),
                                 XUserInfo |-> NoInfo ] ]
    /\ pc' = "received"
    /\ UNCHANGED << authUtils, processEnv, now, gateRan, res, verify, log, hasher >>
    /\ UNCHANGED loginVars
    /\ UNCHANGED sessionVars
    /\ UNCHANGED seedVars

NextSession ==
    Mount \/ FlushEffects \/ Render \/ Navigate \/ RouteChange \/ SetToken
      \/ Logout \/ ReceiveHeld \/ Middleware \/ Done \/ Tick

SpecSession == InitSession /\ [][NextSession]_vars

\* the console left to itself after the page has loaded
NextStartup == Mount \/ FlushEffects \/ Render \/ Navigate

SpecStartup == InitSession /\ [][NextStartup]_vars /\ WF_vars(NextStartup)

\* ------------------------------------------------------- seed behaviours
\* a deployment in development or production, before or after seeding
InitSeed ==
    /\ authUtils \in AuthUtils
    /\ processEnv = ConfiguredSecret
    /\ users \in { << >>, << D_bob >>, << D_admin, D_bob >> }
    /\ InitRest
    /\ localStorage = Null
    /\ pathname = P_login
    /\ SessionInit
    /\ nodeEnv \in NodeEnvs
    /\ seed = [ i \in SeedRequests |-> SeedIdle ]

\* seed POST up to the answer of getDocs: the security check and the query
\* for the admin user
SeedQuery(i) ==
    /\ seed[i].pc = "idle"
    /\ \E providedSecret \in ProvidedSecrets :
          LET Admin(d) == d.username = "admin"
              empty == SelectSeq(users, Admin) = << >>
          IN  seed' = [ seed EXCEPT ![i] =
                          IF seedForbidden(nodeEnv, providedSecret)
                            THEN [ pc |-> "done", status |-> 403 ]
                          ELSE IF ~ empty
                            THEN [ pc |-> "done", status |-> 200 ]
                          ELSE [ pc |-> "hashing", status |-> 0 ] ]
    /\ UNCHANGED << nodeEnv, users, lreq, lres, issued >>
    /\ UNCHANGED serverVars
    /\ UNCHANGED gateVars
    /\ UNCHANGED sessionVars

\* seed POST after the query found no admin: pbkdf2Hash, then addDoc
SeedAdd(i) ==
    /\ seed[i].pc = "hashing"
    /\ \E salt \in RandomSalts, err \in CryptoErrors :
          LET h == pbkdf2Hash("password123", salt, err) IN
          IF h.settled = "resolved"
            THEN /\ users' = Append(users, SeedDoc(i, h.value))
                 /\ seed' = [ seed EXCEPT ![i] = [ pc |-> "done", status |-> 201 ] ]
            ELSE /\ users' = users
                 /\ seed' = [ seed EXCEPT ![i] = [ pc |-> "done", status |-> 500 ] ]
    /\ UNCHANGED << nodeEnv, lreq, lres, issued >>
    /\ UNCHANGED serverVars
    /\ UNCHANGED gateVars
    /\ UNCHANGED sessionVars

\* the seed request is over
SeedDone(i) ==
    /\ seed[i].pc = "done"
    /\ seed' = [ seed EXCEPT ![i] = SeedIdle ]
    /\ UNCHANGED << nodeEnv, users, lreq, lres, issued >>
    /\ UNCHANGED serverVars
    /\ UNCHANGED gateVars
    /\ UNCHANGED sessionVars

NextSeed == \E i \in SeedRequests : SeedQuery(i) \/ SeedAdd(i) \/ SeedDone(i)

SpecSeed == InitSeed /\ [][NextSeed]_vars

\* ======================================================================
\* Claims about the Request Gate
\* ======================================================================

\* the path begins with /api/products or /api/orders
HasProtectedPrefix(path) ==
    StartsWith(path, P_api_products) \/ StartsWith(path, P_api_orders)

\* the path ends in one of the known asset extensions
HasAssetSuffix(path) == \E e \in AssetExtensions : EndsWith(path, e)

\* the signature of t is the server's HMAC over the payload t carries
SignatureVerifies(t) == t.sig.key = JWT_SECRET(processEnv) /\ t.sig.msg = t.payload

\* the request's Authorization header is exactly 'Bearer <token>'
IsBearer(h) ==
    /\ h.present
    /\ Len(h.value) = 3
    /\ h.value[1] = Txt("Bearer")
    /\ h.value[2] = SP
    /\ h.value[3].c = "jws"

\* the request was forwarded to its route handler
Forwarded == pc = "responded" /\ res.kind = "next"

\* C1: a request whose path begins with a protected API prefix reaches
\* business logic only if it carries an Authorization header of the form
\* '<scheme> <token>' with a token that passes verifyToken and whose role
\* claim is 'admin' (the scheme word is not examined here).
C1_ForwardedOnlyWithAdminBearer ==
    (Forwarded /\ HasProtectedPrefix(req.pathname)) =>
        LET bearer == BearerToken(req.headers.Authorization) IN
        /\ bearer.defined
        /\ LET v == verifyToken(authUtils, processEnv, bearer.str, now)
           IN  v.ok /\ v.payload.role = "admin"

\* C2: a protected-API request whose token verifies but whose role is not
\* 'admin' is answered 403, an outcome distinct from the 401 of a missing
\* header or an invalid token.
C2_NonAdminIsForbidden ==
    ( /\ pc = "responded"
      /\ verify.called
      /\ verify.result.ok
      /\ verify.result.payload.role # "admin" ) =>
        /\ res.kind = "json"
        /\ res.status = 403
        /\ res # requireAuthentication.res

\* C3: a request to a protected API path that carries no Authorization
\* header is answered 401 and verifyToken is not called for it.
C3_NoHeaderIsUnauthenticated ==
    ( /\ pc = "responded"
      /\ HasProtectedPrefix(req.pathname)
      /\ ~ HasAssetSuffix(req.pathname)
      /\ ~ req.headers.Authorization.present ) =>
        /\ res.kind = "json"
        /\ res.status = 401
        /\ ~ verify.called

\* the same request carrying a token that is not even a JWS
WithGarbageToken(r) ==
    [ r EXCEPT !.headers.Authorization = Header(<< Txt("Bearer"), SP, Txt("garbage") >>) ]

\* C4: when the token of a protected-API request fails verification, the
\* response is the 401 the gate gives the same request with a malformed
\* token: the cause of the failure (expired, malformed, forged) does not
\* show in the status or the body.
C4_FailureCauseNotVisible ==
    (pc = "responded" /\ verify.called /\ ~ verify.result.ok) =>
        /\ res.kind = "json"
        /\ res.status = 401
        /\ res = middleware(WithGarbageToken(req), authUtils, processEnv, now).res

\* a correctly signed token the gate rejected because it had expired
C4_Witness ==
    /\ pc = "responded"
    /\ verify.called
    /\ ~ verify.result.ok
    /\ IsBearer(req.headers.Authorization)
    /\ LET t == req.headers.Authorization.value[3].tok IN
         SignatureVerifies(t) /\ t.payload.exp # NoExp /\ t.payload.exp <= now
    /\ res.status = 401

\* C5: the static-asset rule applies only to paths under /_next/ or ending
\* in a known asset extension; a protected-API path that merely contains
\* a '.' is still subject to the protected-api policy (a 401, or a token
\* check that let it through).
C5_DotDoesNotBypass ==
    ( /\ pc = "responded"
      /\ gateRan
      /\ HasProtectedPrefix(req.pathname)
      /\ ~ StartsWith(req.pathname, P_next)
      /\ ~ HasAssetSuffix(req.pathname) ) =>
        \/ res.kind = "json" /\ res.status = 401
        \/ verify.called

\* the class of a path by the ordered rules: static asset, public
\* allow-list, protected-API prefix, otherwise page
Classify(path) ==
    IF StartsWith(path, P_next) \/ Includes(path, ".") THEN "public"
    ELSE IF path \in { P_login, P_api_auth_login } THEN "public"
    ELSE IF HasProtectedPrefix(path) THEN "protected-api"
    ELSE "protected-page"

\* C6: every path falls in one class by the ordered rules, and a public or
\* protected-page request is passed through as it came: no token check, no
\* redirect, no answer from the gate, whatever headers it carries.
C6_PublicAndPagesPassThrough ==
    (pc = "responded" /\ Classify(req.pathname) \in { "public", "protected-page" }) =>
        /\ res.kind = "next"
        /\ res.headers = req.headers
        /\ ~ verify.called

\* a page request and an unprotected API request, each carrying a token
\* that would not verify, passed through by middleware()
C6_Witness ==
    /\ pc = "responded"
    /\ gateRan
    /\ req.pathname \in { P_dashboard, P_api_seed }
    /\ IsBearer(req.headers.Authorization)
    /\ ~ SignatureVerifies(req.headers.Authorization.value[3].tok)
    /\ res.kind = "next"

\* C7: when a protected-API request is allowed, the verified claims are on
\* the forwarded request's X-User-Info header, the rest of the request is
\* as it came, and no answer the gate gives a client carries the claims.
C7_IdentityOnlyDownstream ==
    /\ ( /\ pc = "responded"
         /\ verify.called
         /\ verify.result.ok
         /\ verify.result.payload.role = "admin" ) =>
           /\ res.kind = "next"
           /\ res.headers.Authorization = req.headers.Authorization
           /\ res.headers.XUserInfo.present
           /\ LET claims == verify.result.payload
                  info   == res.headers.XUserInfo.json
              IN  /\ "role" \in DOMAIN info
                  /\ info["role"] = "admin"
                  /\ \A f \in { "userId", "username" } :
                        claims[f] # UNDEF => (f \in DOMAIN info /\ info[f] = claims[f])
                  /\ claims.exp # NoExp => ("exp" \in DOMAIN info /\ info["exp"] = claims.exp)
    /\ (pc = "responded" /\ res.kind = "json") =>
           /\ res.body \in { "Authentication required", "Invalid or expired token" }
           /\ ~ res.headers.XUserInfo.present

\* an admin token was verified and the request forwarded with its claims
C7_Witness ==
    /\ pc = "responded"
    /\ verify.called
    /\ verify.result.ok
    /\ res.kind = "next"
    /\ res.headers.XUserInfo.present
    /\ "userId" \in DOMAIN res.headers.XUserInfo.json
    /\ res.headers.XUserInfo.json["userId"] = "u1"

\* ======================================================================
\* Claims about the Token Service
\* ======================================================================

\* the string handed to verifyToken for the request in flight
TokenString == BearerToken(req.headers.Authorization).str

\* it is a compact JWS whose signature verifies under the server secret
WellSigned == IsCompactJws(TokenString) /\ SignatureVerifies(TokenString[1].tok)

\* the payload of the token in flight
InFlightPayload == TokenString[1].tok.payload

\* C8 (as stated): verifyToken accepts a token if and only if its
\* signature verifies and the current time is strictly before its
\* expiresAt (stated for the strings that are no token at all and for the
\* tokens that carry an expiresAt).
C8_AcceptedIffSignedAndUnexpired ==
    ( /\ pc = "responded"
      /\ verify.called
      /\ IsCompactJws(TokenString) => InFlightPayload.exp # NoExp ) =>
        ( verify.result.ok <=> (WellSigned /\ now < InFlightPayload.exp) )

\* C8 (amended): verifyToken accepts a token only if its signature
\* verifies and the current time is strictly before the expiresAt it
\* carries, if it carries one; and it accepts every such token whose
\* userId, username and role are non-empty strings.
C8_AcceptedOnlyIfSignedAndUnexpired ==
    (pc = "responded" /\ verify.called) =>
        /\ verify.result.ok =>
              /\ WellSigned
              /\ InFlightPayload.exp # NoExp => now < InFlightPayload.exp
              /\ verify.result.payload = InFlightPayload
        /\ ( /\ WellSigned
             /\ InFlightPayload.exp # NoExp => now < InFlightPayload.exp
             /\ \A f \in { "userId", "username", "role" } :
                   InFlightPayload[f] \notin { UNDEF, NUM7, "" } ) => verify.result.ok

\* a correctly signed token verified at the very second it expires
C8_Witness ==
    /\ pc = "responded"
    /\ verify.called
    /\ WellSigned
    /\ InFlightPayload.exp = now
    /\ ~ verify.result.ok

\* C9: verifyToken fails for every correctly signed, unexpired token whose
\* payload lacks userId, username or role, and the gate forwards no
\* request carrying such a token.
C9_MissingFieldRejected ==
    ( /\ pc = "responded"
      /\ verify.called
      /\ WellSigned
      /\ InFlightPayload.exp # NoExp
      /\ now < InFlightPayload.exp
      /\ \E f \in { "userId", "username", "role" } : InFlightPayload[f] = UNDEF ) =>
        /\ ~ verify.result.ok
        /\ res.kind # "next"

\* C10: the error verifyToken gives its caller is one and the same for
\* every failure: the error of any failed call is the error a malformed
\* token gets.
C10_SingleGenericError ==
    (pc = "responded" /\ verify.called /\ ~ verify.result.ok) =>
        verify.result.error = verifyToken(authUtils, processEnv, << Txt("garbage") >>, now).error

\* ======================================================================
\* Claims about the login endpoint and the Credential Hasher
\* ======================================================================

\* the verified payload carries the identity of the document d
CarriesIdentityOf(payload, d) ==
    payload.userId = d.id /\ payload.username = d.username /\ payload.role = d.role

\* the request in flight carries the token the login endpoint issued last
CarriesIssuedToken ==
    /\ pc = "responded"
    /\ verify.called
    /\ issued.present
    /\ TokenString = << Jws(issued.jws) >>

C12_HashThenVerify ==
    ( /\ hasher.pc = "verified"
      /\ hasher.malformation = "none"
      /\ hasher.candidate = hasher.password
      /\ hasher.cryptoError = "" ) =>
        /\ hasher.result.settled = "resolved"
        /\ hasher.result.value = TRUE
        /\ LET parts == SplitOn(hasher.stored, ":") IN
             /\ Len(parts) = 2
             /\ Len(parts[1]) = 2 * SALT_BYTES
             /\ Len(parts[2]) = 2 * KEY_LENGTH
             /\ \A i \in 1..Len(parts[2]) : HexValue(parts[2][i]) >= 0

\* a password hashed and then verified against its own hash
C12_Witness ==
    /\ hasher.pc = "verified"
    /\ hasher.malformation = "none"
    /\ hasher.candidate = hasher.password
    /\ hasher.password = "password123"
    /\ hasher.result.value = TRUE

\* C13: for every malformed stored hash (no ':', empty salt or key,
\* non-hex segments, a key of another byte length) pbkdf2Verify resolves
\* false; it neither throws nor rejects.
C13_MalformedNeverVerifies ==
    ( /\ hasher.pc = "verified"
      /\ hasher.malformation # "none"
      /\ hasher.cryptoError = "" ) =>
        /\ hasher.result.settled = "resolved"
        /\ hasher.result.value = FALSE

\* the documents of the users collection with the submitted username
MatchingDocs ==
    LET Match(d) == d.username = lreq.body.username IN SelectSeq(users, Match)

\* the login endpoint answered a request that gave both credentials, with
\* no internal failure
Answered ==
    /\ pc = "login-responded"
    /\ lreq.fault = "none"
    /\ lreq.body.username # ""
    /\ lreq.body.password # ""

\* salt:key with a hex salt of SALT_BYTES bytes and a hex key of KEY_LENGTH bytes
IsWellFormedHash(h) ==
    /\ h.present
    /\ LET parts == SplitOn(h.value, ":") IN
         /\ Len(parts) = 2
         /\ Len(parts[1]) = 2 * SALT_BYTES
         /\ Len(parts[2]) = 2 * KEY_LENGTH
         /\ \A i \in 1..Len(parts[1]) : HexValue(parts[1][i]) >= 0
         /\ \A i \in 1..Len(parts[2]) : HexValue(parts[2][i]) >= 0

\* the stored hash of d is a (possibly empty) string that is not salt:key
HasMalformedHash(d) == d.passwordHash.present /\ ~ IsWellFormedHash(d.passwordHash)

\* the key stored for d is the one derived from the password and d's salt
PasswordMatches(d, password) ==
    LET parts == SplitOn(d.passwordHash.value, ":") IN
    Buffer_from_hex(parts[2]) = crypto_pbkdf2(password, parts[1], KEY_LENGTH)

UnknownUsername == Answered /\ MatchingDocs = << >>

WrongPassword ==
    /\ Answered
    /\ Len(MatchingDocs) = 1
    /\ IsWellFormedHash(MatchingDocs[1].passwordHash)
    /\ ~ PasswordMatches(MatchingDocs[1], lreq.body.password)

MalformedStoredHash ==
    /\ Answered
    /\ Len(MatchingDocs) = 1
    /\ HasMalformedHash(MatchingDocs[1])

ValidCredentials ==
    /\ Answered
    /\ Len(MatchingDocs) = 1
    /\ IsWellFormedHash(MatchingDocs[1].passwordHash)
    /\ PasswordMatches(MatchingDocs[1], lreq.body.password)

\* C14: the login endpoint returns a token only if a user document has
\* exactly the submitted username, pbkdf2Verify of its passwordHash against
\* the submitted password resolved true, and its role is 'admin'; the
\* token carries the id, username and role of that document.
C14_TokenOnlyForVerifiedAdmin ==
    (pc = "login-responded" /\ lres.token.present) =>
        /\ lres.status = 200
        /\ \E i \in 1..Len(users) :
              LET d == users[i] IN
              /\ d.username = lreq.body.username
              /\ d.passwordHash.present
              /\ pbkdf2Verify(d.passwordHash.value, lreq.body.password, "")
                   = VerifyResolved(TRUE)
              /\ d.role = "admin"
              /\ CarriesIdentityOf(lres.token.jws.payload, d)

\* the seeded admin logged in and got a token
C14_Witness ==
    /\ pc = "login-responded"
    /\ lres.token.present
    /\ lreq.body = [ username |-> "admin", password |-> "password123" ]
    /\ lres.token.jws.payload.userId = "u1"

\* C15: the login response is the same for an unknown username, a wrong
\* password and a malformed stored hash.
C15_SubCausesIndistinguishable ==
    (UnknownUsername \/ WrongPassword \/ MalformedStoredHash) =>
        lres = LoginJson("Invalid username or password", 401)

\* C16: valid credentials of a user whose role is not 'admin' get the
\* 403 'admin privileges required' answer, which differs from the
\* invalid-credentials answer in status and wording, and no token.
C16_NonAdminGetsInsufficientRole ==
    (ValidCredentials /\ MatchingDocs[1].role # "admin") =>
        /\ lres.status = 403
        /\ lres.message = "Access denied. Admin privileges required."
        /\ lres.message # POST([ username |-> "nobody", password |-> "x" ],
                               users, processEnv, now, "none").message
        /\ ~ lres.token.present

\* bob, a customer, gave his password and was refused as not an admin
C16_Witness ==
    /\ ValidCredentials
    /\ lreq.body.username = "bob"
    /\ lres.status = 403

\* C17 (as stated): the wording of a failed login's body is the same for
\* 'user not found', 'wrong password' and 'not admin'.
C17_FailureWordingGeneric ==
    ( \/ UnknownUsername
      \/ WrongPassword
      \/ (ValidCredentials /\ MatchingDocs[1].role # "admin") ) =>
        lres.message = "Invalid username or password"

\* C17 (amended): the failed login's response is the same for 'user not
\* found' and 'wrong password'; 'not admin' has a response of its own.
C17_NotFoundAndWrongPasswordGeneric ==
    /\ (UnknownUsername \/ WrongPassword) =>
          /\ lres.status = 401
          /\ lres.message = "Invalid username or password"
          /\ lres.error = ""
          /\ ~ lres.token.present
    /\ (ValidCredentials /\ MatchingDocs[1].role # "admin") =>
          lres.message # "Invalid username or password"

\* the seeded admin gave a wrong password
C17_Witness ==
    /\ WrongPassword
    /\ lreq.body.username = "admin"
    /\ lres.status = 401

\* C18: no response of the login endpoint or of the gate carries raw
\* internal error text: the body has no field taken from an exception.
C18_NoInternalErrorText ==
    /\ pc = "login-responded" => lres.error = ""
    /\ (pc = "responded" /\ res.kind = "json") =>
          res.body \in { "Authentication required", "Invalid or expired token" }

\* C19: when more than one document has the submitted username the login
\* endpoint answers with an internal error and issues no token.
C19_DuplicateUsernameIsConfigurationError ==
    (Answered /\ Len(MatchingDocs) > 1) =>
        /\ lres.status = 500
        /\ ~ lres.token.present

\* C20: when process.env.JWT_SECRET is not set no token is issued and no
\* token is accepted.
C20_NoTokensWithoutSecret ==
    processEnv = UNDEF =>
        /\ ~ (pc = "login-responded" /\ lres.token.present)
        /\ ~ (pc = "responded" /\ verify.called /\ verify.result.ok)

\* ======================================================================
\* Claims about the Session Controller, the gate's headers and the seed
\* ======================================================================

\* the request in flight carries HeldToken as its Bearer token
CarriesHeldToken ==
    /\ pc = "responded"
    /\ gateRan
    /\ IsBearer(req.headers.Authorization)
    /\ TokenString = << Jws(HeldToken) >>

\* C21: a protected-API request with a token the gate accepts is forwarded
\* at every time before the token's expiresAt, whatever the console has
\* done in between (setToken, logout); no step of the console or of the
\* gate changes the users collection or the secret.
C21_AcceptedUntilExpiryWhateverTheSession ==
    /\ [] ( (CarriesHeldToken /\ now < HeldToken.payload.exp) =>
              /\ verify.called
              /\ verify.result.ok
              /\ res.kind = "next" )
    /\ [][ users' = users /\ processEnv' = processEnv /\ issued' = issued ]_vars

\* the browser has logged out and the token is still accepted
C21_Witness ==
    /\ CarriesHeldToken
    /\ last.op = "logout"
    /\ localStorage = Null
    /\ verify.result.ok
    /\ res.kind = "next"

C23_StartupOnce ==
    /\ [] ( /\ ~ isLoading => "storedToken" \notin effects
            /\ "storedToken" \in last.ran =>
                 /\ last.read.isLoading
                 /\ ~ isLoading
                 /\ ToBoolean(token) <=> ToBoolean(localStorage)
                 /\ ToBoolean(token) => token = localStorage
                 /\ ~ ToBoolean(token) => token = Null )
    /\ [][ /\ ~ isLoading => ~ isLoading'
           /\ (view.mounted /\ ~ view.isLoading) => ~ view'.isLoading
           /\ ~ isLoading => "storedToken" \notin effects' ]_vars

\* setToken was called with a token after startup and the session is
\* still loaded
C23_Witness ==
    /\ last.op = "setToken"
    /\ last.arg = "abc"
    /\ token = "abc"
    /\ ~ isLoading
    /\ ~ view.isLoading

\* the last step called router.push(href)
PushedTo(href) == \E i \in DOMAIN last.pushed : last.pushed[i].to = href

\* nothing is pending: no effect, no state to render, no navigation
Quiescent ==
    /\ view.mounted
    /\ effects = { }
    /\ view = Rendered(token, isLoading, pathname)
    /\ router.pending = NoRoute

Effective(v) == IF ToBoolean(v) THEN v ELSE Null

\* C25: after setToken and logout the token state and the 'adminToken'
\* item agree with each other and with the argument, and an effect that
\* redirects has read the token the item holds, not an older one.
C25_TokenAndSlotAgree ==
    /\ last.op \in { "setToken", "logout" } =>
          /\ Effective(token) = Effective(localStorage)
          /\ Effective(token) = Effective(last.arg)
          /\ ~ isLoading
    /\ last.op = "effects" =>
          \A i \in DOMAIN last.pushed :
             Effective(last.pushed[i].token) = Effective(localStorage)

\* C26: setToken called with the value the token already has writes
\* nothing to localStorage and calls router.push for nothing; one call of
\* setToken or logout writes at most once and calls router.push at most
\* once.
C26_SetTokenIdempotent ==
    /\ (last.op = "setToken" /\ Effective(last.arg) = Effective(last.before)) =>
          /\ last.writes = 0
          /\ last.pushed = << >>
    /\ last.op \in { "setToken", "logout" } =>
          /\ last.writes <= 1
          /\ Len(last.pushed) <= 1

\* the page was opened on /login with a token stored
StartedOnLoginWithToken ==
    ~ view.mounted /\ pathname = P_login /\ ToBoolean(localStorage)

\* C27: opened on /login with a stored token, the console calls
\* router.push once and comes to rest on /dashboard; opened on any route
\* with any stored item it calls router.push at most twice and comes to
\* rest with nothing pending.
C27_NoRedirectLoop ==
    /\ StartedOnLoginWithToken =>
          /\ [] (router.pushes <= 1)
          /\ <> (Quiescent /\ pathname = P_dashboard /\ router.pushes = 1)
    /\ [] (router.pushes <= 2)
    /\ <>[] Quiescent

\* the console came to rest on the dashboard after one redirect
C27_Witness ==
    /\ Quiescent
    /\ pathname = P_dashboard
    /\ localStorage = "abc"
    /\ token = "abc"
    /\ router.pushes = 1

\* C28: an X-User-Info header on a request the gate forwards was written by
\* the gate from the claims of the token it verified for that request.
C28_UserInfoOnlyFromGate ==
    (pc = "responded" /\ gateRan /\ res.kind = "next"
       /\ res.headers.XUserInfo.present) =>
        /\ verify.called
        /\ verify.result.ok
        /\ res.headers.XUserInfo.json = JSONstringify(verify.result.payload)

\* C29: AdminLayout shows its children only in a render with isLoading
\* false and a token; with isLoading true it shows the spinner and with no
\* token it shows nothing.
C29_ChildrenOnlyWhenAuthenticated ==
    /\ view.screen = "children" =>
          /\ view.mounted
          /\ view.layout
          /\ ~ view.isLoading
          /\ ToBoolean(view.token)
    /\ (view.layout /\ view.isLoading) => view.screen = "spinner"
    /\ (view.layout /\ ~ view.isLoading /\ ~ ToBoolean(view.token)) =>
          view.screen = "null"

\* after a logout on a protected route React has rendered again and
\* AdminLayout shows nothing
C29_Witness ==
    /\ view.layout
    /\ view.screen = "null"
    /\ last.op = "render"
    /\ localStorage = Null
    /\ router.pending = P_login

\* the documents of the users collection with username 'admin'
AdminDocs == { i \in DOMAIN users : users[i].username = "admin" }

\* C30: the users collection never holds more than one document with
\* username 'admin'.
C30_AtMostOneAdmin == Cardinality(AdminDocs) <= 1

====
